---- MODULE Spec2Model ----
(***************************************************************************)
(* bkge-import_mesh: src/main.cpp.                                         *)
(*                                                                         *)
(* main() reads the flags --help, --source and --out, asks the import      *)
(* service (Assimp) for a scene, flattens the scene's submeshes into three *)
(* buffers (meshes, vertexes, indexes) and writes the buffers to the       *)
(* output file, field by field.                                            *)
(*                                                                         *)
(* Numbers: a uint32_t is a natural below 2^32; a float is represented by  *)
(* its 32-bit pattern (0.0f is 0, 1.0f is 1065353216, ...), so a copy of a *)
(* float is a copy of its bits.  The output file is the sequence of the    *)
(* 32-bit words written to it, in host representation.                     *)
(***************************************************************************)
EXTENDS Integers, Sequences, FiniteSets, TLC

\* Bounds of the scenes the import service may return.
MaxMeshes == 2
\* Total number of vertices of a scene.
MaxVertices == 3
\* Total number of faces of a scene.
MaxFaces == 2

\* A pointer to a scene is the empty sequence (nullptr) or << the scene >>.
NullPtr == << >>

(***************************************************************************)
(* Conversion to uint32_t (static_cast<uint32_t>, arithmetic in uint32_t)  *)
(* is reduction modulo 2^32.  Every number of the model (a pool size, a     *)
(* sum of a base and a vertex reference, the bits of a non-negative float) *)
(* is a natural below 2^31, which the reduction modulo 2^32 leaves as it   *)
(* is.                                                                     *)
(***************************************************************************)
U32(n) == n

\* Bit patterns of the floats 0.0f, 1.0f, 2.0f, 3.0f, 4.0f, 5.0f, 6.0f, 7.0f.
FloatTable ==
  << 0, 1065353216, 1073741824, 1077936128,
     1082130432, 1084227584, 1086324736, 1088421888 >>

FloatBits(n) == FloatTable[(n % Len(FloatTable)) + 1]

\* glm::vec3 / aiVector3D / aiColor3D: three floats.
Vec3(a, b, c) == [x |-> a, y |-> b, z |-> c]

Zero3 == Vec3(0, 0, 0)

(***************************************************************************)
(* A default-initialised glm::vec3 that is never assigned (Vertex::normal  *)
(* of "Vertex vert;") holds an indeterminate value: whatever the stack     *)
(* slot held, which may or may not be zero.                                *)
(***************************************************************************)
IndeterminateVec3 == { Zero3, Vec3(2143289344, 1, 1065353216) }

(***************************************************************************)
(* The scenes the import service may return (aiScene).  A scene has a list *)
(* of submeshes (aiMesh: mVertices, mFaces, mMaterialIndex) and a material *)
(* table; a material may or may not have the key AI_MATKEY_COLOR_DIFFUSE.  *)
(* Every face refers to vertices of its own submesh (what the import       *)
(* service guarantees); a face has 2 (line), 3 (triangle) or 4 (quad)      *)
(* vertex references.  Submesh m uses material m modulo the size of the    *)
(* table.                                                                  *)
(***************************************************************************)
SceneMaterials ==
  << [has_diffuse |-> TRUE,  diffuse |-> Vec3(FloatBits(1), 0, 0)],
     [has_diffuse |-> FALSE, diffuse |-> Zero3] >>

SeqsUpTo(S, n) == UNION { [1..k -> S] : k \in 0..n }

\* The position of vertex i of submesh m of the source (both 0-based).
SourcePosition(m, i) ==
  Vec3(FloatBits(m + 1), FloatBits(i + 2), FloatBits(2 * m + i + 3))

FaceSet(nv) ==
  IF nv = 0 THEN {}
  ELSE { << 0 % nv, 1 % nv, 2 % nv >>,
         << 2 % nv, 1 % nv, 0 % nv >>,
         << 0 % nv, 1 % nv, 2 % nv, 3 % nv >>,
         << 0 % nv, 1 % nv >> }

SubMesh(m, nv, faces) ==
  [ mNumVertices   |-> nv,
    mVertices      |-> [i \in 1..nv |-> SourcePosition(m, i - 1)],
    mNumFaces      |-> Len(faces),
    mFaces         |-> faces,
    mMaterialIndex |-> m % Len(SceneMaterials) ]

\* The lists of k submeshes, the first of which is submesh number m, with at
\* most v vertices and f faces in all.
RECURSIVE MeshLists(_, _, _, _)
MeshLists(m, k, v, f) ==
  IF k = 0 THEN { << >> }
  ELSE UNION { UNION {
         { << SubMesh(m, nv, faces) >> \o rest :
             rest \in MeshLists(m + 1, k - 1, v - nv, f - Len(faces)) }
         : faces \in SeqsUpTo(FaceSet(nv), f) }
         : nv \in 0..v }

SceneSet ==
  { [ mNumMeshes |-> Len(ms), mMeshes |-> ms, mMaterials |-> SceneMaterials ] :
      ms \in UNION { MeshLists(0, k, MaxVertices, MaxFaces) : k \in 0..MaxMeshes } }

(***************************************************************************)
(* The state of main().                                                    *)
(***************************************************************************)
VARIABLES
  pc,                    \* the position of main()
  vm,                    \* po::variables_map: which flags the command line has
  incomplete_arguments,
  file_path,
  output_file,           \* std::ofstream: is it open, and the words of the file
  p_scene,
  meshes, vertexes, indexes,
  mesh_num, vertex_num, face_num,
  index_base,            \* the local of line 171
  exit_status            \* the value main() returned; -1 while it runs

vars ==
  << pc, vm, incomplete_arguments, file_path, output_file, p_scene,
     meshes, vertexes, indexes, mesh_num, vertex_num, face_num,
     index_base, exit_status >>

\* struct Mesh, value-initialised (meshes.resize).
ZeroMesh ==
  [ color |-> Zero3, vertex_base |-> 0, vertex_count |-> 0,
    index_base |-> 0, index_count |-> 0 ]

Init ==
  /\ pc = "help"
  /\ vm \in [help : BOOLEAN, source : BOOLEAN, out : BOOLEAN]
  /\ incomplete_arguments = FALSE
  /\ file_path = ""
  /\ output_file = [is_open |-> FALSE, data |-> << >>]
  /\ p_scene = NullPtr
  /\ meshes = << >>
  /\ vertexes = << >>
  /\ indexes = << >>
  /\ mesh_num = 0
  /\ vertex_num = 0
  /\ face_num = 0
  /\ index_base = 0
  /\ exit_status = -1

(***************************************************************************)
(* Get arguments (lines 50-92).                                            *)
(***************************************************************************)
\* if (vm.count("help")) { ...; return 0; }
ShowHelp ==
  /\ pc = "help"
  /\ IF vm.help
       THEN pc' = "done" /\ exit_status' = 0
       ELSE pc' = "source" /\ UNCHANGED exit_status
  /\ UNCHANGED << vm, incomplete_arguments, file_path, output_file, p_scene,
                  meshes, vertexes, indexes, mesh_num, vertex_num, face_num,
                  index_base >>

\* if (vm.count("source")) file_path = ...; else incomplete_arguments = true;
GetSource ==
  /\ pc = "source"
  /\ IF vm.source
       THEN file_path' = "source" /\ UNCHANGED incomplete_arguments
       ELSE incomplete_arguments' = TRUE /\ UNCHANGED file_path
  /\ pc' = "out"
  /\ UNCHANGED << vm, output_file, p_scene, meshes, vertexes, indexes,
                  mesh_num, vertex_num, face_num, index_base, exit_status >>

\* output_file.open(path): the file is created, or truncated, and is open.
open(of) == [is_open |-> TRUE, data |-> << >>]

\* if (vm.count("out")) output_file.open(...); else incomplete_arguments = true;
GetOut ==
  /\ pc = "out"
  /\ IF vm.out
       THEN output_file' = open(output_file) /\ UNCHANGED incomplete_arguments
       ELSE incomplete_arguments' = TRUE /\ UNCHANGED output_file
  /\ pc' = "arguments"
  /\ UNCHANGED << vm, file_path, p_scene, meshes, vertexes, indexes,
                  mesh_num, vertex_num, face_num, index_base, exit_status >>

\* CheckArguments without its return: main() goes on with flags missing.
CheckArguments_NoReturn ==
  /\ pc = "arguments"
  /\ pc' = "read_file"
  /\ UNCHANGED << vm, incomplete_arguments, file_path, output_file, p_scene,
                  meshes, vertexes, indexes, mesh_num, vertex_num, face_num,
                  index_base, exit_status >>

\* if (incomplete_arguments) return 0;
CheckArguments ==
  /\ pc = "arguments"
  /\ IF incomplete_arguments
       THEN pc' = "done" /\ exit_status' = 0
       ELSE pc' = "read_file" /\ UNCHANGED exit_status
  /\ UNCHANGED << vm, incomplete_arguments, file_path, output_file, p_scene,
                  meshes, vertexes, indexes, mesh_num, vertex_num, face_num,
                  index_base >>

(***************************************************************************)
(* Import (lines 96-116).                                                  *)
(***************************************************************************)
\* p_scene = importer.ReadFile(...): a scene, or nullptr on failure.
ReadFile ==
  /\ pc = "read_file"
  /\ p_scene' \in { NullPtr } \cup { << s >> : s \in SceneSet }
  /\ pc' = "import"
  /\ UNCHANGED << vm, incomplete_arguments, file_path, output_file,
                  meshes, vertexes, indexes, mesh_num, vertex_num, face_num,
                  index_base, exit_status >>

\* if (p_scene == nullptr) { ...; return 0; }  meshes.resize(mNumMeshes);
CheckImport ==
  /\ pc = "import"
  /\ IF p_scene = NullPtr
       THEN /\ pc' = "done"
            /\ exit_status' = 0
            /\ UNCHANGED meshes
       ELSE /\ pc' = "mesh_loop"
            /\ meshes' = [k \in 1..p_scene[1].mNumMeshes |-> ZeroMesh]
            /\ UNCHANGED exit_status
  /\ UNCHANGED << vm, incomplete_arguments, file_path, output_file, p_scene,
                  vertexes, indexes, mesh_num, vertex_num, face_num,
                  index_base >>

(***************************************************************************)
(* Iterate over meshes (lines 118-187).                                    *)
(***************************************************************************)
\* aiColor3D ai_color{0,0,0}; material->Get(AI_MATKEY_COLOR_DIFFUSE, ai_color):
\* Get leaves ai_color as it is when the material has no such key.
DiffuseColor(scene, ai_mesh) ==
  LET material == scene.mMaterials[ai_mesh.mMaterialIndex + 1]
  IN  IF material.has_diffuse THEN material.diffuse ELSE Zero3

\* MeshHeader with the two pool sizes taken for one another.
MeshHeader_SwappedBases(mesh, scene, ai_mesh, vertexes_size, indexes_size) ==
  [ mesh EXCEPT !.vertex_base  = U32(indexes_size),
                !.index_base   = U32(vertexes_size),
                !.vertex_count = U32(ai_mesh.mNumVertices),
                !.color        = DiffuseColor(scene, ai_mesh) ]

\* Lines 123-134: the bases, the vertex count and the colour of a mesh record.
MeshHeader(mesh, scene, ai_mesh, vertexes_size, indexes_size) ==
  [ mesh EXCEPT !.vertex_base  = U32(vertexes_size),
                !.index_base   = U32(indexes_size),
                !.vertex_count = U32(ai_mesh.mNumVertices),
                !.color        = DiffuseColor(scene, ai_mesh) ]

MeshBegin ==
  /\ pc = "mesh_loop"
  /\ mesh_num < p_scene[1].mNumMeshes
  /\ meshes' = [ meshes EXCEPT ![mesh_num + 1] =
                   MeshHeader(@, p_scene[1], p_scene[1].mMeshes[mesh_num + 1],
                              Len(vertexes), Len(indexes)) ]
  /\ vertex_num' = 0
  /\ pc' = "vertex_loop"
  /\ UNCHANGED << vm, incomplete_arguments, file_path, output_file, p_scene,
                  vertexes, indexes, mesh_num, face_num, index_base,
                  exit_status >>

\* LoadPosition with y and z taken for one another.
LoadPosition_SwappedYZ(ai_mesh, n) ==
  LET p_position == ai_mesh.mVertices[n + 1]
  IN  Vec3(p_position.x, p_position.z, p_position.y)

\* Lines 153, 163-165: the position of vertex number n of the submesh.
LoadPosition(ai_mesh, n) ==
  LET p_position == ai_mesh.mVertices[n + 1]
  IN  Vec3(p_position.x, p_position.y, p_position.z)

\* One iteration of the vertex loop: "Vertex vert;" has its position assigned
\* and its normal left as it was.
LoadVertex ==
  /\ pc = "vertex_loop"
  /\ vertex_num < p_scene[1].mMeshes[mesh_num + 1].mNumVertices
  /\ \E normal \in IndeterminateVec3 :
       vertexes' = Append(vertexes,
         [ position |-> LoadPosition(p_scene[1].mMeshes[mesh_num + 1], vertex_num),
           normal   |-> normal ])
  /\ vertex_num' = vertex_num + 1
  /\ UNCHANGED << pc, vm, incomplete_arguments, file_path, output_file, p_scene,
                  meshes, indexes, mesh_num, face_num, index_base,
                  exit_status >>

\* LocalIndexBase as the comment of line 170 has it: the number of vertices of
\* the previous meshes and of this one.
LocalIndexBase_FromVertexes(vertexes_size, indexes_size) == U32(vertexes_size)

\* Line 171: uint32_t index_base{static_cast<uint32_t>(indexes.size())};
LocalIndexBase(vertexes_size, indexes_size) == U32(indexes_size)

FacesBegin ==
  /\ pc = "vertex_loop"
  /\ vertex_num >= p_scene[1].mMeshes[mesh_num + 1].mNumVertices
  /\ index_base' = LocalIndexBase(Len(vertexes), Len(indexes))
  /\ face_num' = 0
  /\ pc' = "face_loop"
  /\ UNCHANGED << vm, incomplete_arguments, file_path, output_file, p_scene,
                  meshes, vertexes, indexes, mesh_num, vertex_num,
                  exit_status >>

\* IsTriangle that keeps every face with at least 3 vertex references.
IsTriangle_AtLeast3(ai_face) == Len(ai_face) >= 3

\* Line 179: a face is kept when it is a triangle.
IsTriangle(ai_face) == Len(ai_face) = 3

\* Lines 181-183: the three indexes a triangle appends.
FaceIndexes(base, ai_face) ==
  << U32(base + ai_face[1]), U32(base + ai_face[2]), U32(base + ai_face[3]) >>

\* One iteration of the face loop.
LoadFace ==
  /\ pc = "face_loop"
  /\ face_num < p_scene[1].mMeshes[mesh_num + 1].mNumFaces
  /\ LET ai_face == p_scene[1].mMeshes[mesh_num + 1].mFaces[face_num + 1]
     IN  IF IsTriangle(ai_face)
           THEN /\ indexes' = indexes \o FaceIndexes(index_base, ai_face)
                /\ meshes' = [ meshes EXCEPT ![mesh_num + 1].index_count =
                                 U32(@ + 3) ]
           ELSE UNCHANGED << indexes, meshes >>
  /\ face_num' = face_num + 1
  /\ UNCHANGED << pc, vm, incomplete_arguments, file_path, output_file, p_scene,
                  vertexes, mesh_num, vertex_num, index_base, exit_status >>

\* The face loop ends; mesh_num++.
MeshEnd ==
  /\ pc = "face_loop"
  /\ face_num >= p_scene[1].mMeshes[mesh_num + 1].mNumFaces
  /\ mesh_num' = mesh_num + 1
  /\ pc' = "mesh_loop"
  /\ UNCHANGED << vm, incomplete_arguments, file_path, output_file, p_scene,
                  meshes, vertexes, indexes, vertex_num, face_num, index_base,
                  exit_status >>

(***************************************************************************)
(* write_to_file (lines 33-43) and the three save blocks (lines 211-245).  *)
(* A write to a stream that is not open fails and writes nothing.          *)
(***************************************************************************)
write_to_file(of, ui) ==
  IF of.is_open THEN [of EXCEPT !.data = Append(@, U32(ui))] ELSE of

write_to_file_vec3(of, vector) ==
  write_to_file(write_to_file(write_to_file(of, vector.x), vector.y), vector.z)

\* SaveMesh with vertex_count written before vertex_base.
SaveMesh_CountFirst(of, mesh) ==
  write_to_file(
    write_to_file(
      write_to_file(
        write_to_file(
          write_to_file_vec3(of, mesh.color),
          mesh.vertex_count),
        mesh.vertex_base),
      mesh.index_base),
    mesh.index_count)

\* Lines 218-223.
SaveMesh(of, mesh) ==
  write_to_file(
    write_to_file(
      write_to_file(
        write_to_file(
          write_to_file_vec3(of, mesh.color),
          mesh.vertex_base),
        mesh.vertex_count),
      mesh.index_base),
    mesh.index_count)

\* SaveVertex with the normal written before the position.
SaveVertex_NormalFirst(of, vertex) ==
  write_to_file_vec3(write_to_file_vec3(of, vertex.normal), vertex.position)

\* Lines 234-235.
SaveVertex(of, vertex) ==
  write_to_file_vec3(write_to_file_vec3(of, vertex.position), vertex.normal)

RECURSIVE SaveMeshList(_, _)
SaveMeshList(of, ms) ==
  IF ms = << >> THEN of ELSE SaveMeshList(SaveMesh(of, Head(ms)), Tail(ms))

RECURSIVE SaveVertexList(_, _)
SaveVertexList(of, vs) ==
  IF vs = << >> THEN of ELSE SaveVertexList(SaveVertex(of, Head(vs)), Tail(vs))

RECURSIVE SaveIndexList(_, _)
SaveIndexList(of, is) ==
  IF is = << >> THEN of ELSE SaveIndexList(write_to_file(of, Head(is)), Tail(is))

\* The mesh loop ends; the summary is printed; lines 211-225.
SaveMeshes ==
  /\ pc = "mesh_loop"
  /\ mesh_num >= p_scene[1].mNumMeshes
  /\ output_file' = SaveMeshList(write_to_file(output_file, Len(meshes)), meshes)
  /\ pc' = "save_vertexes"
  /\ UNCHANGED << vm, incomplete_arguments, file_path, p_scene,
                  meshes, vertexes, indexes, mesh_num, vertex_num, face_num,
                  index_base, exit_status >>

\* Lines 227-237.
SaveVertexes ==
  /\ pc = "save_vertexes"
  /\ output_file' =
       SaveVertexList(write_to_file(output_file, Len(vertexes)), vertexes)
  /\ pc' = "save_indexes"
  /\ UNCHANGED << vm, incomplete_arguments, file_path, p_scene,
                  meshes, vertexes, indexes, mesh_num, vertex_num, face_num,
                  index_base, exit_status >>

\* Lines 239-248: the indexes are saved and main() returns 0.
SaveIndexes ==
  /\ pc = "save_indexes"
  /\ output_file' =
       SaveIndexList(write_to_file(output_file, Len(indexes)), indexes)
  /\ pc' = "done"
  /\ exit_status' = 0
  /\ UNCHANGED << vm, incomplete_arguments, file_path, p_scene,
                  meshes, vertexes, indexes, mesh_num, vertex_num, face_num,
                  index_base >>

Next ==
  \/ ShowHelp
  \/ GetSource
  \/ GetOut
  \/ CheckArguments
  \/ ReadFile
  \/ CheckImport
  \/ MeshBegin
  \/ LoadVertex
  \/ FacesBegin
  \/ LoadFace
  \/ MeshEnd
  \/ SaveMeshes
  \/ SaveVertexes
  \/ SaveIndexes

Spec == Init /\ [][Next]_vars

(***************************************************************************)
(* Properties.                                                             *)
(***************************************************************************)
\* The import succeeded and meshes has been resized.
InPipeline == p_scene # NullPtr /\ pc # "import"

\* The mesh loop has ended.
Flattened ==
  /\ InPipeline
  /\ mesh_num >= p_scene[1].mNumMeshes
  /\ pc \in {"mesh_loop", "save_vertexes", "save_indexes", "done"}

\* The writer has written the three sections and main() has returned.
WriterDone == p_scene # NullPtr /\ pc = "done"

\* Submesh number m (1-based): has its record been started, how many of its
\* vertices and faces the loops have been through.
Begun(m) ==
  \/ m - 1 < mesh_num
  \/ m - 1 = mesh_num /\ pc \in {"vertex_loop", "face_loop"}

VerticesDone(m) ==
  IF m - 1 < mesh_num \/ (m - 1 = mesh_num /\ pc = "face_loop")
    THEN p_scene[1].mMeshes[m].mNumVertices
    ELSE IF m - 1 = mesh_num /\ pc = "vertex_loop" THEN vertex_num ELSE 0

FacesDone(m) ==
  IF m - 1 < mesh_num
    THEN p_scene[1].mMeshes[m].mNumFaces
    ELSE IF m - 1 = mesh_num /\ pc = "face_loop" THEN face_num ELSE 0

\* The number of faces with exactly 3 vertex references among the first n.
TrianglesAmong(ai_mesh, n) ==
  Cardinality({ f \in 1..n : Len(ai_mesh.mFaces[f]) = 3 })

RECURSIVE SumOf(_, _)
SumOf(F(_), n) == IF n = 0 THEN 0 ELSE F(n) + SumOf(F, n - 1)

(* C1: after flattening, the mesh records' ranges tile both pools in scene
   order: the first record has both bases 0, each record's base plus count is
   the next record's base, and the last record's base plus count is the size
   of the pool. *)
C1_RangesTilePools ==
  Flattened =>
    LET M == Len(meshes) IN
    /\ M = p_scene[1].mNumMeshes
    /\ M > 0 => /\ meshes[1].vertex_base = 0
                /\ meshes[1].index_base = 0
                /\ meshes[M].vertex_base + meshes[M].vertex_count = Len(vertexes)
                /\ meshes[M].index_base + meshes[M].index_count = Len(indexes)
    /\ \A k \in 1..(M - 1) :
         /\ meshes[k].vertex_base + meshes[k].vertex_count = meshes[k + 1].vertex_base
         /\ meshes[k].index_base + meshes[k].index_count = meshes[k + 1].index_base

C1_Witness ==
  /\ Flattened
  /\ Len(meshes) = 2
  /\ meshes[1].vertex_count > 0 /\ meshes[1].index_count > 0
  /\ meshes[2].vertex_count > 0 /\ meshes[2].index_count > 0
  /\ meshes[1].vertex_count # meshes[1].index_count

(* C2: every value of the index pool refers to a position of the vertex pool:
   it is less than the number of vertices of the pool (every face of every
   scene of SceneSet refers to vertices of its own submesh). *)
C2_IndexesReferToVertexPool ==
  Flattened => \A i \in 1..Len(indexes) : indexes[i] < Len(vertexes)

(* C3: the index_count of every mesh record is 3 times the number of the
   faces with exactly 3 vertex references the face loop has been through, so
   it is a multiple of 3 that is at most 3 times the number of faces; the
   index pool holds that many values and no other, so a face with another
   number of references appends nothing and leaves index_count as it is. *)
C3_IndexCountIsThreePerTriangle ==
  InPipeline =>
    /\ \A m \in 1..Len(meshes) :
         LET ai_mesh == p_scene[1].mMeshes[m] IN
         /\ meshes[m].index_count = 3 * TrianglesAmong(ai_mesh, FacesDone(m))
         /\ meshes[m].index_count % 3 = 0
         /\ meshes[m].index_count <= 3 * ai_mesh.mNumFaces
    /\ LET IndexCount(m) == meshes[m].index_count
       IN  Len(indexes) = SumOf(IndexCount, Len(meshes))

C3_Witness ==
  /\ Flattened
  /\ \E m \in 1..Len(meshes) :
       /\ p_scene[1].mMeshes[m].mNumFaces = 2
       /\ Len(p_scene[1].mMeshes[m].mFaces[1]) = 4
       /\ Len(p_scene[1].mMeshes[m].mFaces[2]) = 3
       /\ meshes[m].index_count = 3

(* C4: there is one mesh record per submesh, in scene order; the vertex_count
   of a record is its submesh's vertex count; and local vertex i of submesh m
   is at position vertex_base[m] + i of the vertex pool with the position the
   source gives it, whatever was processed afterwards. *)
C4_PositionsCopiedInOrder ==
  InPipeline =>
    /\ Len(meshes) = p_scene[1].mNumMeshes
    /\ \A m \in 1..Len(meshes) :
         Begun(m) =>
           LET ai_mesh == p_scene[1].mMeshes[m] IN
           /\ meshes[m].vertex_count = ai_mesh.mNumVertices
           /\ \A i \in 0..(VerticesDone(m) - 1) :
                /\ meshes[m].vertex_base + i + 1 <= Len(vertexes)
                /\ vertexes[meshes[m].vertex_base + i + 1].position
                     = ai_mesh.mVertices[i + 1]

C4_Witness ==
  /\ Flattened
  /\ Len(meshes) = 2
  /\ meshes[1].vertex_count = 1
  /\ meshes[2].vertex_count = 2
  /\ vertexes[3].position = p_scene[1].mMeshes[2].mVertices[2]

(***************************************************************************)
(* The layout of the output file: the count of mesh records, the records   *)
(* of MeshWords words each, the count of vertex records, the records of    *)
(* VertexWords words each, the count of indexes, the indexes.              *)
(***************************************************************************)
MeshWords == 7
VertexWords == 6

(* C5: a run that reaches the writer writes the count M of mesh records, the M
   records of 7 fields (colour r, g, b, vertex_base, vertex_count, index_base,
   index_count), the count V of vertexes, the V records of 6 fields (position
   x, y, z, normal x, y, z), the count I of indexes and the I indexes, and
   nothing else. *)
C5_OutputIsCountPrefixedSections ==
  WriterDone =>
    LET data == output_file.data
        M == Len(meshes)
        V == Len(vertexes)
        I == Len(indexes)
        vsec == 1 + MeshWords * M
        isec == vsec + 1 + VertexWords * V
    IN  /\ Len(data) = isec + 1 + I
        /\ data[1] = M
        /\ \A k \in 1..M :
             LET at == 1 + MeshWords * (k - 1) IN
             /\ data[at + 1] = meshes[k].color.x
             /\ data[at + 2] = meshes[k].color.y
             /\ data[at + 3] = meshes[k].color.z
             /\ data[at + 4] = meshes[k].vertex_base
             /\ data[at + 5] = meshes[k].vertex_count
             /\ data[at + 6] = meshes[k].index_base
             /\ data[at + 7] = meshes[k].index_count
        /\ data[vsec + 1] = V
        /\ \A k \in 1..V :
             LET at == vsec + 1 + VertexWords * (k - 1) IN
             /\ data[at + 1] = vertexes[k].position.x
             /\ data[at + 2] = vertexes[k].position.y
             /\ data[at + 3] = vertexes[k].position.z
             /\ data[at + 4] = vertexes[k].normal.x
             /\ data[at + 5] = vertexes[k].normal.y
             /\ data[at + 6] = vertexes[k].normal.z
        /\ data[isec + 1] = I
        /\ \A k \in 1..I : data[isec + 1 + k] = indexes[k]

C5_Witness ==
  /\ WriterDone
  /\ Len(meshes) = 2
  /\ Len(vertexes) = 3
  /\ Len(indexes) = 6
  /\ Len(output_file.data) = 41

\* A reader of the documented layout: from position `at` of the file, a count
\* and then that many records of `width` words each.
ReadSection(data, at, width) ==
  [ count   |-> data[at],
    records |-> [k \in 1..data[at] |->
                   SubSeq(data, at + 1 + width * (k - 1), at + width * k)],
    next    |-> at + 1 + width * data[at] ]

Decode(data) ==
  LET ms == ReadSection(data, 1, MeshWords)
      vs == ReadSection(data, ms.next, VertexWords)
      is == ReadSection(data, vs.next, 1)
  IN  [ mesh_count |-> ms.count,
        meshes     |-> [k \in 1..ms.count |->
                          [ vertex_base  |-> ms.records[k][4],
                            vertex_count |-> ms.records[k][5],
                            index_base   |-> ms.records[k][6],
                            index_count  |-> ms.records[k][7] ]],
        positions  |-> [k \in 1..vs.count |->
                          Vec3(vs.records[k][1], vs.records[k][2], vs.records[k][3])],
        indexes    |-> [k \in 1..is.count |-> is.records[k][1]],
        end        |-> is.next ]

(* C6: reading the written file back with the documented layout gives the mesh
   count, the bases and counts of every mesh record, the position of every
   vertex and every index of the flattener's buffers, in the same order, and
   the reader ends at the end of the file. *)
C6_RoundTrip ==
  WriterDone =>
    LET d == Decode(output_file.data) IN
    /\ d.mesh_count = Len(meshes)
    /\ d.meshes = [k \in 1..Len(meshes) |->
                     [ vertex_base  |-> meshes[k].vertex_base,
                       vertex_count |-> meshes[k].vertex_count,
                       index_base   |-> meshes[k].index_base,
                       index_count  |-> meshes[k].index_count ]]
    /\ d.positions = [k \in 1..Len(vertexes) |-> vertexes[k].position]
    /\ d.indexes = indexes
    /\ d.end = Len(output_file.data) + 1

C6_Witness ==
  /\ WriterDone
  /\ Len(meshes) = 2
  /\ Len(vertexes) = 3
  /\ Len(indexes) = 3
  /\ Decode(output_file.data).indexes = indexes
  /\ Decode(output_file.data).positions[3] = vertexes[3].position

(* C7: every vertex record of the vertex pool, and so every vertex record
   written to the output, has the zero vector as its normal. *)
C7_NormalsAreZero ==
  \A k \in 1..Len(vertexes) : vertexes[k].normal = Zero3

\* The runs that end early: a required flag is missing, or the import
\* service returned a failure.
MissingFlag == ~vm.help /\ (~vm.source \/ ~vm.out)

ImportFailed ==
  /\ ~vm.help /\ vm.source /\ vm.out
  /\ pc \in {"import", "done"}
  /\ p_scene = NullPtr

(* C8: in a run in which a required flag is missing or the import fails,
   main() returns 0, the flattener and the writer never run, and nothing is
   written to the output file, which is empty if it was opened. *)
C8_EarlyExitWritesNothing ==
  (MissingFlag \/ ImportFailed) =>
    /\ pc \in {"help", "source", "out", "arguments", "read_file", "import", "done"}
    /\ pc = "done" => exit_status = 0
    /\ pc # "done" => exit_status = -1
    /\ output_file.data = << >>
    /\ meshes = << >> /\ vertexes = << >> /\ indexes = << >>
    /\ MissingFlag => pc \notin {"read_file", "import"} /\ p_scene = NullPtr

C8_Witness ==
  /\ ImportFailed
  /\ pc = "done"
  /\ exit_status = 0
  /\ output_file.is_open
  /\ output_file.data = << >>

(* C9: once a missing flag (or a failed import) has been detected, no further
   pipeline action is taken: the output file is not opened afterwards, the
   import service is not called, nothing is flattened or written. *)
C9_FailureIsTerminal ==
  [][ (incomplete_arguments \/ (pc = "done" /\ p_scene = NullPtr))
        => UNCHANGED << output_file, p_scene, meshes, vertexes, indexes >> ]_vars

\* The size of the index pool when submesh m (1-based) starts: 3 for every
\* triangle of the submeshes before it.
RECURSIVE PoolSizeBefore(_)
PoolSizeBefore(m) ==
  IF m <= 1 THEN 0
  ELSE PoolSizeBefore(m - 1)
         + 3 * TrianglesAmong(p_scene[1].mMeshes[m - 1],
                              p_scene[1].mMeshes[m - 1].mNumFaces)

(* C10: for every submesh m, the index_base of its record is the size of the
   index pool when m started, and the t-th of its faces with exactly 3 vertex
   references (r0, r1, r2) appended index_base[m] + r0, index_base[m] + r1,
   index_base[m] + r2, in this order, at the positions that follow those of
   the triangles before it. *)
C10_IndexesOffsetByIndexPoolSize ==
  InPipeline =>
    \A m \in 1..Len(meshes) :
      Begun(m) =>
        LET ai_mesh == p_scene[1].mMeshes[m] IN
        /\ meshes[m].index_base = PoolSizeBefore(m)
        /\ \A f \in 1..FacesDone(m) :
             Len(ai_mesh.mFaces[f]) = 3 =>
               LET at == PoolSizeBefore(m) + 3 * TrianglesAmong(ai_mesh, f - 1)
               IN  /\ at + 3 <= Len(indexes)
                   /\ \A j \in 1..3 :
                        indexes[at + j] = U32(PoolSizeBefore(m) + ai_mesh.mFaces[f][j])

C10_Witness ==
  /\ Flattened
  /\ Len(meshes) = 2
  /\ meshes[2].index_base = 3
  /\ meshes[2].vertex_base = 1
  /\ meshes[2].index_count = 3
  /\ p_scene[1].mMeshes[2].mFaces[1] = << 0, 1, 0 >>
  /\ indexes = << 0, 0, 0, 3, 4, 3 >>

====
